---- MODULE Spec2Model ----
(***************************************************************************)
(* Model of the coroutine package: the broadcast coroutine and the         *)
(* threaded / multiprocessed pools (src/__init__.py).                      *)
(*                                                                         *)
(* One program run constructs one stage (a threaded pool, a multiprocessed *)
(* pool or a broadcast) and a single producer drives it with send, close   *)
(* and stop calls.  The workers of a pool run concurrently with the        *)
(* producer, one statement of run_target at a time.                        *)
(***************************************************************************)
EXTENDS Integers, Sequences, FiniteSets, TLC

\* ---- bounds of the model ------------------------------------------------
MaxWorkers == 2      \* largest num_threads / num_processes tried
MaxTargets == 2      \* largest number of broadcast targets tried
MaxCalls == 3        \* number of calls the producer makes in one run

\* ---- values ---------------------------------------------------------------
Items == {"x", "y"}            \* the data the producer may send
BadItem == "y"                 \* the item a faulty downstream stage raises on
GeneratorExit == "GeneratorExit"   \* the sentinel put on the queue by close
NoItem == "None"               \* run_target's item before the first get

VARIABLES
    stage,        \* class constructed: "threaded", "multiprocessed", "broadcast",
                  \* or "coroutine.multiprocessed", the class of src/coroutine.py
    num,          \* _num_threads / _num_processes (0 for a broadcast)
    ntargets,     \* len(targets) of the broadcast (0 for a pool)
    faulty,       \* downstream stages whose send raises on BadItem
    gen,          \* the stage's generator: "suspended", "closing", "finished"
                  \* ("none" when the constructor created none)
    i,            \* loop index of the for loop in the GeneratorExit handler
    messages,     \* the shared queue of the pool
    stopEvent,    \* _stopEvent.is_set()
    late,         \* history: late[w], entries w dequeued with the flag set
                  \* (recorded in SpecLate only)
    pc,           \* pc[w]: the statement worker w executes next
    item,         \* item[w]: run_target's local variable item
    target,       \* target[w]: identity of the stage run_target sends to
    calls,        \* calls[w]: the calls worker w has made on its target
    factoryCalls, \* invocations of _wrapped_target so far
    bcalls,       \* the calls the broadcast has made on its targets, in order
    sent,         \* history: the items the stage's send accepted, in order
    closed,       \* history: close() has been called on the stage
    ncalls,       \* history: number of producer calls made
    op,           \* the producer's latest call: "send", "close", "stop"
    result        \* its outcome: "ok", "pending", or the exception raised

vars == <<stage, num, ntargets, faulty, gen, i, messages, stopEvent, late, pc, item,
          target, calls, factoryCalls, bcalls, sent, closed, ncalls, op,
          result>>

poolVars == <<messages, stopEvent, late, pc, item, target, calls, factoryCalls, i>>
workerVars == <<pc, item, target, calls, factoryCalls, late>>
config == <<stage, num, ntargets, faulty>>

IsPool == stage \in {"threaded", "multiprocessed"}
\* the execution units spawned, and the targets of the broadcast
Workers == IF IsPool THEN 1..num ELSE {}
Targets == 1..ntargets

\* a call record on a downstream stage
SendCall(t, it) == [on |-> t, op |-> "send", arg |-> it]
CloseCall(t) == [on |-> t, op |-> "close", arg |-> NoItem]

\* does the send of item it to downstream stage s raise?
Raises(s, it) == s \in faulty /\ it = BadItem

\* identities of downstream stage objects
Unbound == 0       \* run_target has not bound its local target yet
TheTarget == 1     \* the coroutine object passed to multiprocessed(n, target)

\* ---- Queue.Queue --------------------------------------------------------
\* variants of the queue with a fault, used to test the properties: a put
\* that drops the entry when the queue is not empty, a put at the head, and
\* a get that takes the newest entry
put_lossy(q, e) == IF q # <<>> THEN q ELSE Append(q, e)
put_front(q, e) == <<e>> \o q
get_lifo(q) == <<q[Len(q)], SubSeq(q, 1, Len(q) - 1)>>

\* a get that leaves the entry on the queue
get_peek(q) == <<Head(q), q>>

\* put appends at the tail; get removes the head: <<entry, rest of queue>>
put(q, e) == Append(q, e)
get(q) == <<Head(q), Tail(q)>>

\* ---- construction ---------------------------------------------------------
\* threaded.__init__ / multiprocessed.__init__: the generator is primed up to
\* its first yield, which starts the workers with an empty queue.
InitPool ==
    /\ stage \in {"threaded", "multiprocessed"}
    /\ num \in 1..MaxWorkers
    /\ ntargets = 0
    /\ faulty \in {{}, 1..num}
    /\ messages = <<>>
    /\ stopEvent = FALSE
    /\ pc = [w \in 1..num |-> IF stage = "threaded" THEN "start" ELSE "is_set"]
    /\ item = [w \in 1..num |-> NoItem]
    /\ target = [w \in 1..num |-> IF stage = "threaded" THEN Unbound ELSE TheTarget]
    /\ calls = [w \in 1..num |-> <<>>]
    /\ late = [w \in 1..num |-> 0]
    /\ factoryCalls = 0
    /\ bcalls = <<>>

\* broadcast(*targets), primed up to its first yield
InitBroadcast ==
    /\ stage = "broadcast"
    /\ num = 0
    /\ ntargets \in 1..MaxTargets
    /\ faulty \in {{}} \cup {{t} : t \in 1..ntargets}
    /\ messages = <<>>
    /\ stopEvent = FALSE
    /\ pc = <<>>
    /\ item = <<>>
    /\ target = <<>>
    /\ calls = <<>>
    /\ late = <<>>
    /\ factoryCalls = 0
    /\ bcalls = <<>>

\* multiprocessed.__init__ of src/coroutine.py: it calls
\* self._multiprocessed(), but the class defines _multiprocess, so the
\* constructor raises AttributeError before any generator, queue or process
\* exists and the caller gets no pool object.
InitNoMethod ==
    /\ stage = "coroutine.multiprocessed"
    /\ num \in 1..MaxWorkers
    /\ ntargets = 0
    /\ faulty = {}
    /\ messages = <<>>
    /\ stopEvent = FALSE
    /\ pc = <<>>
    /\ item = <<>>
    /\ target = <<>>
    /\ calls = <<>>
    /\ late = <<>>
    /\ factoryCalls = 0
    /\ bcalls = <<>>

Init ==
    /\ \/ (InitPool \/ InitBroadcast) /\ gen = "suspended" /\ result = "none"
       \/ InitNoMethod /\ gen = "none" /\ result = "AttributeError"
    /\ i = 0
    /\ sent = <<>>
    /\ closed = FALSE
    /\ ncalls = 0
    /\ op = "none"

\* ---- the producer's calls on a pool --------------------------------------
\* faulty variant: send puts arg on the queue whatever the generator's state
pool_send_unguarded(arg) ==
    /\ IsPool
    /\ gen # "closing"
    /\ ncalls < MaxCalls
    /\ ncalls' = ncalls + 1
    /\ op' = "send"
    /\ messages' = put(messages, arg)
    /\ sent' = Append(sent, arg)
    /\ result' = "ok"
    /\ UNCHANGED <<config, gen, i, stopEvent, workerVars, bcalls, closed>>

\* threaded.send / multiprocessed.send: generator.send(arg).  A suspended
\* generator resumes at the yield and puts arg on the queue; a finished one
\* raises StopIteration to the caller.
pool_send(arg) ==
    /\ IsPool
    /\ gen # "closing"
    /\ ncalls < MaxCalls
    /\ ncalls' = ncalls + 1
    /\ op' = "send"
    /\ IF gen = "suspended"
       THEN /\ messages' = put(messages, arg)
            /\ sent' = Append(sent, arg)
            /\ result' = "ok"
       ELSE /\ result' = "StopIteration"
            /\ UNCHANGED <<messages, sent>>
    /\ UNCHANGED <<config, gen, i, stopEvent, workerVars, bcalls, closed>>

\* threaded.close / multiprocessed.close: generator.close().  On a suspended
\* generator GeneratorExit is raised at the yield and the handler's for loop
\* starts; on a finished generator close() returns at once.
pool_close ==
    /\ IsPool
    /\ gen # "closing"
    /\ ncalls < MaxCalls
    /\ ncalls' = ncalls + 1
    /\ op' = "close"
    /\ closed' = TRUE
    /\ IF gen = "suspended"
       THEN /\ gen' = "closing"
            /\ i' = 0
            /\ result' = "pending"
       ELSE /\ result' = "ok"
            /\ UNCHANGED <<gen, i>>
    /\ UNCHANGED <<config, messages, stopEvent, workerVars, bcalls, sent>>

\* faulty variant: the for loop runs over xrange(n - 1)
close_put_short ==
    /\ IsPool
    /\ gen = "closing"
    /\ i < num
    /\ messages' = put(messages, GeneratorExit)
    /\ i' = i + 1
    /\ IF i + 1 >= num - 1
       THEN gen' = "finished" /\ result' = "ok"
       ELSE UNCHANGED <<gen, result>>
    /\ UNCHANGED <<config, stopEvent, workerVars, bcalls, sent, closed,
                   ncalls, op>>

\* one iteration of "for i in xrange(n): messages.put(GeneratorExit)"; after
\* the last one the generator returns and close() returns to the producer.
close_put ==
    /\ IsPool
    /\ gen = "closing"
    /\ i < num
    /\ messages' = put(messages, GeneratorExit)
    /\ i' = i + 1
    /\ IF i + 1 = num
       THEN gen' = "finished" /\ result' = "ok"
       ELSE UNCHANGED <<gen, result>>
    /\ UNCHANGED <<config, stopEvent, workerVars, bcalls, sent, closed,
                   ncalls, op>>

\* threaded.stop / multiprocessed.stop
stop ==
    /\ IsPool
    /\ gen # "closing"
    /\ ncalls < MaxCalls
    /\ ncalls' = ncalls + 1
    /\ op' = "stop"
    /\ stopEvent' = TRUE
    /\ result' = "ok"
    /\ UNCHANGED <<config, gen, i, messages, workerVars, bcalls, sent, closed>>

\* ---- run_target, one statement at a time ---------------------------------
\* faulty variant: the factory is invoked once and its result shared
run_target_factory_shared(w) ==
    /\ stage = "threaded"
    /\ pc[w] = "start"
    /\ factoryCalls' = 1
    /\ target' = [target EXCEPT ![w] = 1]
    /\ pc' = [pc EXCEPT ![w] = "is_set"]
    /\ UNCHANGED <<config, late, gen, i, messages, stopEvent, item, calls, bcalls,
                   sent, closed, ncalls, op, result>>

\* target = self._wrapped_target()   (threaded only)
run_target_factory(w) ==
    /\ stage = "threaded"
    /\ pc[w] = "start"
    /\ factoryCalls' = factoryCalls + 1
    /\ target' = [target EXCEPT ![w] = factoryCalls + 1]
    /\ pc' = [pc EXCEPT ![w] = "is_set"]
    /\ UNCHANGED <<config, late, gen, i, messages, stopEvent, item, calls, bcalls,
                   sent, closed, ncalls, op, result>>

\* faulty variant: the loop condition is inverted (while stopEvent.is_set())
run_target_is_set_inverted(w) ==
    /\ IsPool
    /\ pc[w] = "is_set"
    /\ pc' = [pc EXCEPT ![w] = IF stopEvent THEN "get" ELSE "close"]
    /\ UNCHANGED <<config, late, gen, i, messages, stopEvent, item, target, calls,
                   factoryCalls, bcalls, sent, closed, ncalls, op, result>>

\* while not stopEvent.is_set():
run_target_is_set(w) ==
    /\ IsPool
    /\ pc[w] = "is_set"
    /\ pc' = [pc EXCEPT ![w] = IF stopEvent THEN "close" ELSE "get"]
    /\ UNCHANGED <<config, late, gen, i, messages, stopEvent, item, target, calls,
                   factoryCalls, bcalls, sent, closed, ncalls, op, result>>

\* faulty variant: a get that times out and leaves the loop when the queue
\* is empty and the stop flag is set
run_target_get_polling(w) ==
    /\ IsPool
    /\ pc[w] = "get"
    /\ IF messages = <<>>
       THEN /\ stopEvent
            /\ pc' = [pc EXCEPT ![w] = "close"]
            /\ UNCHANGED <<item, messages>>
       ELSE /\ item' = [item EXCEPT ![w] = get(messages)[1]]
            /\ messages' = get(messages)[2]
            /\ pc' = [pc EXCEPT ![w] =
                  IF get(messages)[1] = GeneratorExit THEN "close" ELSE "send"]
    /\ UNCHANGED <<config, late, gen, i, stopEvent, target, calls, factoryCalls,
                   bcalls, sent, closed, ncalls, op, result>>

\* faulty variant: the sentinel makes run_target return without target.close()
run_target_get_return(w) ==
    /\ IsPool
    /\ pc[w] = "get"
    /\ messages # <<>>
    /\ item' = [item EXCEPT ![w] = get(messages)[1]]
    /\ messages' = get(messages)[2]
    /\ pc' = [pc EXCEPT ![w] =
                IF get(messages)[1] = GeneratorExit THEN "done" ELSE "send"]
    /\ UNCHANGED <<config, late, gen, i, stopEvent, target, calls, factoryCalls,
                   bcalls, sent, closed, ncalls, op, result>>

\* item = messages.get(); if item is GeneratorExit: break
\* (the statement itself, without the history variable late)
dequeue(w) ==
    /\ IsPool
    /\ pc[w] = "get"
    /\ messages # <<>>
    /\ item' = [item EXCEPT ![w] = get(messages)[1]]
    /\ messages' = get(messages)[2]
    /\ pc' = [pc EXCEPT ![w] =
                IF get(messages)[1] = GeneratorExit THEN "close" ELSE "send"]
    /\ UNCHANGED <<config, gen, i, stopEvent, target, calls, factoryCalls,
                   bcalls, sent, closed, ncalls, op, result>>

run_target_get(w) == dequeue(w) /\ UNCHANGED late

\* the same statement, counted in late when the stop flag is set
run_target_get_counted(w) ==
    /\ dequeue(w)
    /\ late' = [late EXCEPT ![w] = IF stopEvent THEN @ + 1 ELSE @]

\* faulty variant: after target.send(item) the worker goes straight back to
\* messages.get(), without reading the stop flag
run_target_send_no_check(w) ==
    /\ IsPool
    /\ pc[w] = "send"
    /\ IF Raises(w, item[w])
       THEN /\ pc' = [pc EXCEPT ![w] = "raised"]
            /\ UNCHANGED calls
       ELSE /\ pc' = [pc EXCEPT ![w] = "get"]
            /\ calls' = [calls EXCEPT ![w] = Append(@, SendCall(target[w], item[w]))]
    /\ UNCHANGED <<config, late, gen, i, messages, stopEvent, item, target,
                   factoryCalls, bcalls, sent, closed, ncalls, op, result>>

\* faulty variant: an exception of target.send(item) is caught and the
\* worker goes on to target.close()
run_target_send_caught(w) ==
    /\ IsPool
    /\ pc[w] = "send"
    /\ IF Raises(w, item[w])
       THEN /\ pc' = [pc EXCEPT ![w] = "close"]
            /\ UNCHANGED calls
       ELSE /\ pc' = [pc EXCEPT ![w] = "is_set"]
            /\ calls' = [calls EXCEPT ![w] = Append(@, SendCall(target[w], item[w]))]
    /\ UNCHANGED <<config, late, gen, i, messages, stopEvent, item, target,
                   factoryCalls, bcalls, sent, closed, ncalls, op, result>>

\* target.send(item): an exception is not caught and ends the worker
run_target_send(w) ==
    /\ IsPool
    /\ pc[w] = "send"
    /\ IF Raises(w, item[w])
       THEN /\ pc' = [pc EXCEPT ![w] = "raised"]
            /\ UNCHANGED calls
       ELSE /\ pc' = [pc EXCEPT ![w] = "is_set"]
            /\ calls' = [calls EXCEPT ![w] = Append(@, SendCall(target[w], item[w]))]
    /\ UNCHANGED <<config, late, gen, i, messages, stopEvent, item, target,
                   factoryCalls, bcalls, sent, closed, ncalls, op, result>>

\* target.close(), after which run_target returns
run_target_close(w) ==
    /\ IsPool
    /\ pc[w] = "close"
    /\ calls' = [calls EXCEPT ![w] = Append(@, CloseCall(target[w]))]
    /\ pc' = [pc EXCEPT ![w] = "done"]
    /\ UNCHANGED <<config, late, gen, i, messages, stopEvent, item, target,
                   factoryCalls, bcalls, sent, closed, ncalls, op, result>>

\* ---- broadcast -------------------------------------------------------------
\* faulty variant: a target that raises is skipped and the loop goes on
RECURSIVE forward_sends_continue(_, _)
forward_sends_continue(t, it) ==
    IF t > ntargets THEN <<>>
    ELSE IF Raises(t, it) THEN forward_sends_continue(t + 1, it)
    ELSE <<SendCall(t, it)>> \o forward_sends_continue(t + 1, it)

\* faulty variant: the for loop leaves out the last target
RECURSIVE forward_sends_short(_, _)
forward_sends_short(t, it) ==
    IF t >= ntargets \/ Raises(t, it) THEN <<>>
    ELSE <<SendCall(t, it)>> \o forward_sends_short(t + 1, it)

\* "for target in targets: target.send(item)" from target t on: the calls
\* made, up to the first target that raises
RECURSIVE forward_sends(_, _)
forward_sends(t, it) ==
    IF t > ntargets \/ Raises(t, it) THEN <<>>
    ELSE <<SendCall(t, it)>> \o forward_sends(t + 1, it)

\* "for target in targets: target.close()" from target t on
RECURSIVE forward_closes(_)
forward_closes(t) ==
    IF t > ntargets THEN <<>>
    ELSE <<CloseCall(t)>> \o forward_closes(t + 1)

\* faulty variant: the exception of a target reaches the caller but the
\* generator stays suspended at the yield
broadcast_send_survives(arg) ==
    /\ stage = "broadcast"
    /\ ncalls < MaxCalls
    /\ ncalls' = ncalls + 1
    /\ op' = "send"
    /\ IF gen = "suspended"
       THEN /\ bcalls' = bcalls \o forward_sends(1, arg)
            /\ sent' = Append(sent, arg)
            /\ gen' = gen
            /\ IF \E t \in Targets : Raises(t, arg)
               THEN result' = "raised"
               ELSE result' = "ok"
       ELSE /\ result' = "StopIteration"
            /\ UNCHANGED <<bcalls, sent, gen>>
    /\ UNCHANGED <<config, poolVars, closed>>

\* broadcast.send(arg): the generator resumes at the yield and runs the for
\* loop; an exception of a target leaves the generator finished
broadcast_send(arg) ==
    /\ stage = "broadcast"
    /\ ncalls < MaxCalls
    /\ ncalls' = ncalls + 1
    /\ op' = "send"
    /\ IF gen = "suspended"
       THEN /\ bcalls' = bcalls \o forward_sends(1, arg)
            /\ sent' = Append(sent, arg)
            /\ IF \E t \in Targets : Raises(t, arg)
               THEN gen' = "finished" /\ result' = "raised"
               ELSE gen' = gen /\ result' = "ok"
       ELSE /\ result' = "StopIteration"
            /\ UNCHANGED <<bcalls, sent, gen>>
    /\ UNCHANGED <<config, poolVars, closed>>

\* faulty variant: close() closes the targets whatever the generator's state
broadcast_close_again ==
    /\ stage = "broadcast"
    /\ ncalls < MaxCalls
    /\ ncalls' = ncalls + 1
    /\ op' = "close"
    /\ closed' = TRUE
    /\ result' = "ok"
    /\ bcalls' = bcalls \o forward_closes(1)
    /\ gen' = "finished"
    /\ UNCHANGED <<config, poolVars, sent>>

\* broadcast.close(): GeneratorExit at the yield closes every target and
\* returns; on a finished generator close() returns at once
broadcast_close ==
    /\ stage = "broadcast"
    /\ ncalls < MaxCalls
    /\ ncalls' = ncalls + 1
    /\ op' = "close"
    /\ closed' = TRUE
    /\ result' = "ok"
    /\ IF gen = "suspended"
       THEN /\ bcalls' = bcalls \o forward_closes(1)
            /\ gen' = "finished"
       ELSE UNCHANGED <<bcalls, gen>>
    /\ UNCHANGED <<config, poolVars, sent>>

\* ---- specification ---------------------------------------------------------
\* the statements of run_target a worker can execute
Worker(w) ==
    \/ run_target_factory(w)
    \/ run_target_is_set(w)
    \/ run_target_get(w)
    \/ run_target_send(w)
    \/ run_target_close(w)

Next ==
    \/ \E arg \in Items : pool_send(arg)
    \/ pool_close
    \/ close_put
    \/ stop
    \/ \E arg \in Items : broadcast_send(arg)
    \/ broadcast_close
    \/ \E w \in Workers : run_target_factory(w)
    \/ \E w \in Workers : run_target_is_set(w)
    \/ \E w \in Workers : run_target_get(w)
    \/ \E w \in Workers : run_target_send(w)
    \/ \E w \in Workers : run_target_close(w)

Spec == Init /\ [][Next]_vars

\* A run in which the producer only sends and closes a threaded pool whose downstream
\* stages never raise.  The threads and processes are scheduled by the
\* operating system: a worker that can take a step eventually does, and so
\* does the producer inside the for loop of close().
InitClose == Init /\ stage = "threaded" /\ faulty = {}

NextClose ==
    \/ \E arg \in Items : pool_send(arg)
    \/ pool_close
    \/ close_put
    \/ \E w \in Workers : run_target_factory(w)
    \/ \E w \in Workers : run_target_is_set(w)
    \/ \E w \in Workers : run_target_get(w)
    \/ \E w \in Workers : run_target_send(w)
    \/ \E w \in Workers : run_target_close(w)

SpecClose ==
    /\ InitClose
    /\ [][NextClose]_vars
    /\ \A w \in 1..MaxWorkers : WF_vars(w \in Workers /\ Worker(w))
    /\ WF_vars(close_put)

\* A run of a threaded pool whose downstream stages never raise, in which
\* the producer may send, stop and close, under the same scheduling.  The
\* stages treat all items alike, so one item value is sent.
NextStop ==
    \/ pool_send("x")
    \/ pool_close
    \/ close_put
    \/ stop
    \/ \E w \in Workers : run_target_factory(w)
    \/ \E w \in Workers : run_target_is_set(w)
    \/ \E w \in Workers : run_target_get(w)
    \/ \E w \in Workers : run_target_send(w)
    \/ \E w \in Workers : run_target_close(w)

SpecStop ==
    /\ InitClose
    /\ [][NextStop]_vars
    /\ \A w \in 1..MaxWorkers : WF_vars(w \in Workers /\ Worker(w))
    /\ WF_vars(close_put)

\* The runs of a pool whose downstream stages never raise, with the history
\* variable late recording the entries each worker dequeues while the stop
\* flag is set.
InitLate == Init /\ IsPool /\ faulty = {}

NextLate ==
    \/ \E arg \in Items : pool_send(arg)
    \/ pool_close
    \/ close_put
    \/ stop
    \/ \E w \in Workers : run_target_factory(w)
    \/ \E w \in Workers : run_target_is_set(w)
    \/ \E w \in Workers : run_target_get_counted(w)
    \/ \E w \in Workers : run_target_send(w)
    \/ \E w \in Workers : run_target_close(w)

SpecLate == InitLate /\ [][NextLate]_vars

\* ---- vocabulary of the properties ----------------------------------------
\* number of occurrences of v in sequence s
Count(v, s) == Cardinality({k \in DOMAIN s : s[k] = v})

RECURSIVE SumOver(_, _)
SumOver(f, S) ==
    IF S = {} THEN 0
    ELSE LET w == CHOOSE x \in S : TRUE IN f[w] + SumOver(f, S \ {w})

\* the arguments of the send calls in a call log, in order
RECURSIVE SentArgs(_)
SentArgs(log) ==
    IF log = <<>> THEN <<>>
    ELSE IF Head(log).op = "send" THEN <<Head(log).arg>> \o SentArgs(Tail(log))
    ELSE SentArgs(Tail(log))

\* the positions of the close calls in a call log
ClosePositions(log) == {k \in DOMAIN log : log[k].op = "close"}

\* a is a subsequence of b
RECURSIVE IsSubseq(_, _)
IsSubseq(a, b) ==
    IF a = <<>> THEN TRUE
    ELSE IF b = <<>> THEN FALSE
    ELSE IF Head(a) = Head(b) THEN IsSubseq(Tail(a), Tail(b))
    ELSE IsSubseq(a, Tail(b))

AllDone == \A w \in Workers : pc[w] = "done"
SentinelsQueued == Count(GeneratorExit, messages)
\* workers that left their loop by dequeuing a sentinel
SentinelsTaken == Cardinality({w \in Workers : item[w] = GeneratorExit})

\* ---- C1 --------------------------------------------------------------------
\* C1: on a threaded pool driven by sends and one close (stop never called),
\* once every worker has terminated normally, each item has been forwarded
\* to the workers' downstream stages, over all workers, exactly as many
\* times as it was sent: nothing is lost and nothing is forwarded twice.
C1_NoLossNoDuplication ==
    (stage = "threaded" /\ ~stopEvent /\ AllDone) =>
        \A v \in Items :
            SumOver([w \in Workers |-> Count(v, SentArgs(calls[w]))], Workers)
                = Count(v, sent)

C1_Witness ==
    /\ stage = "threaded" /\ num >= 2 /\ ~stopEvent /\ AllDone
    /\ Len(sent) = 2
    /\ \E w1, w2 \in Workers :
          w1 # w2 /\ Len(SentArgs(calls[w1])) = 1 /\ Len(SentArgs(calls[w2])) = 1

\* ---- C2 --------------------------------------------------------------------
\* C2: when the producer only sends and then closes and no downstream
\* raises, a worker leaves its loop only by taking a sentinel of its own
\* (the workers that left are as many as the sentinels taken off the queue,
\* never more than were put), and once close() has been called every worker
\* eventually terminates: none stays blocked on the queue.
C2_EveryWorkerTerminates ==
    /\ [](/\ SentinelsTaken + SentinelsQueued = i
          /\ \A w \in Workers :
                pc[w] \in {"close", "done"} <=> item[w] = GeneratorExit)
    /\ (closed ~> (AllDone /\ messages = <<>>))

C2_Witness ==
    /\ num >= 2 /\ closed /\ AllDone /\ messages = <<>> /\ ~stopEvent
    /\ SentinelsTaken = num

\* ---- C3 --------------------------------------------------------------------
\* C3: a worker's downstream stage is closed at most once, the close is the
\* last call it receives (no send follows it), and a worker that has
\* terminated has closed its stage exactly once, also when no item was sent.
C3_ClosedOnceAfterLastItem ==
    \A w \in Workers :
        /\ Cardinality(ClosePositions(calls[w])) <= 1
        /\ ClosePositions(calls[w]) \subseteq {Len(calls[w])}
        /\ pc[w] = "done" => ClosePositions(calls[w]) = {Len(calls[w])}

C3_Witness ==
    /\ IsPool /\ num >= 2 /\ AllDone /\ ~stopEvent
    /\ \E w1, w2 \in Workers :
          /\ Len(calls[w1]) = 1 /\ calls[w1][1].op = "close"
          /\ Len(calls[w2]) = 2 /\ calls[w2][1].op = "send"
          /\ calls[w2][2].op = "close"

\* ---- C4 --------------------------------------------------------------------
\* a step of the producer inside close() on a pool
CloseStep == IsPool /\ (gen' # gen \/ i' # i)

\* no item is queued behind a sentinel
SentinelsLast ==
    \A j, k \in DOMAIN messages :
        (j < k /\ messages[j] = GeneratorExit) => messages[k] = GeneratorExit

\* C4: close() on an active pool can always start and each of its steps can
\* always be taken, whatever the workers are doing; every step of it leaves
\* the workers, their downstream stages, the stop flag and the items sent
\* untouched; every put appends one sentinel at the tail of the queue, so
\* behind every item sent earlier; and close() returns after exactly num
\* puts.
C4_CloseAppendsSentinelsOnly ==
    /\ [](/\ (IsPool /\ gen = "suspended" /\ ncalls < MaxCalls)
                => ENABLED pool_close
          /\ (IsPool /\ gen = "closing") => ENABLED close_put
          /\ SentinelsLast
          /\ (IsPool /\ gen = "suspended") => SentinelsTaken + SentinelsQueued = 0
          /\ (IsPool /\ gen = "finished") => i = num)
    /\ [][CloseStep =>
            /\ UNCHANGED <<pc, item, target, calls, factoryCalls, stopEvent,
                           sent, config>>
            /\ \/ gen = "suspended" /\ gen' = "closing" /\ messages' = messages
               \/ /\ gen = "closing" /\ i' = i + 1
                  /\ messages' = Append(messages, GeneratorExit)
                  /\ gen' = IF i' = num THEN "finished" ELSE "closing"]_vars

C4_Witness ==
    /\ IsPool /\ num >= 2 /\ gen = "finished" /\ op = "close" /\ result = "ok"
    /\ Len(messages) = num + 1
    /\ messages[1] \in Items
    /\ \A k \in 2..Len(messages) : messages[k] = GeneratorExit
    /\ \E w \in Workers : pc[w] = "get"

\* ---- C5 --------------------------------------------------------------------
\* the calls one send / one close of the broadcast is expected to make
ExpectedSends(it) == [t \in Targets |-> SendCall(t, it)]
ExpectedCloses == [t \in Targets |-> CloseCall(t)]

\* the producer's call made by this step
Calls(name) == ncalls' = ncalls + 1 /\ op' = name

\* C5: a send(item) on an open broadcast none of whose targets raises on
\* item returns normally after exactly one send(item) call on each target,
\* made in construction order t1, ..., tk: none twice, none skipped.
C5_BroadcastSendsToAllInOrder ==
    [][(/\ stage = "broadcast" /\ Calls("send") /\ gen = "suspended"
        /\ \A t \in Targets : ~Raises(t, sent'[Len(sent')]))
          => /\ Len(sent') = Len(sent) + 1
             /\ bcalls' = bcalls \o ExpectedSends(sent'[Len(sent')])
             /\ result' = "ok"
             /\ gen' = "suspended"]_vars

C5_Witness ==
    /\ stage = "broadcast" /\ ntargets >= 2 /\ op = "send" /\ result = "ok"
    /\ Len(sent) = 1
    /\ bcalls = [t \in Targets |-> SendCall(t, sent[1])]

\* ---- C6 --------------------------------------------------------------------
\* C6: the first close() on a broadcast, after any earlier sends, makes
\* exactly one close() call on every target, in construction order, and
\* returns.
C6_FirstCloseClosesEveryTarget ==
    [][(stage = "broadcast" /\ Calls("close") /\ ~closed)
          => /\ bcalls' = bcalls \o ExpectedCloses
             /\ result' = "ok"]_vars

\* ---- C7 --------------------------------------------------------------------
\* the items worker w has taken off the queue so far, in order
Taken(w) ==
    SentArgs(calls[w]) \o (IF pc[w] \in {"send", "raised"} THEN <<item[w]>> ELSE <<>>)

\* C7: the items one worker takes off the queue and forwards to its
\* downstream stage appear there in the order in which the producer sent
\* them.
C7_FifoPerWorker ==
    \A w \in Workers :
        /\ IsSubseq(Taken(w), sent)
        /\ IsSubseq(SentArgs(calls[w]), sent)

C7_Witness ==
    /\ IsPool /\ num >= 2 /\ Len(sent) = 2 /\ sent[1] # sent[2]
    /\ \E w \in Workers : SentArgs(calls[w]) = sent

\* ---- C8 --------------------------------------------------------------------
\* workers whose run_target has bound its local target
Bound == {w \in Workers : target[w] # Unbound}
\* workers that have sent to or closed a downstream stage
Users == {w \in Workers : calls[w] # <<>>}

\* C8 as stated: in both pool variants every worker invokes the factory
\* once, so a pool of num workers makes num invocations once all have
\* started, and no stage instance is used by two workers.
C8_FactoryOncePerWorkerBothVariants ==
    IsPool =>
        /\ factoryCalls <= num
        /\ Cardinality(Users) <= factoryCalls
        /\ AllDone => factoryCalls = num
        /\ \A w1, w2 \in Users : \A k1 \in DOMAIN calls[w1], k2 \in DOMAIN calls[w2] :
              w1 # w2 => calls[w1][k1].on # calls[w2][k2].on

\* C8 amended: the threaded pool invokes the factory once per worker that
\* has started (num invocations in all) and its workers send to and close
\* only the instance they obtained themselves, no instance being used by
\* two workers; the multiprocessed pool invokes no factory and every one of
\* its workers sends to and closes the target given at construction.
C8_FactoryOncePerThread ==
    /\ stage = "threaded" =>
        /\ factoryCalls = Cardinality({w \in Workers : pc[w] # "start"})
        /\ factoryCalls <= num
        /\ \A w1, w2 \in Bound : w1 # w2 => target[w1] # target[w2]
        /\ \A w \in Workers : \A k \in DOMAIN calls[w] :
              calls[w][k].on = target[w] /\ target[w] # Unbound
    /\ stage = "multiprocessed" =>
        /\ factoryCalls = 0
        /\ \A w \in Workers :
              /\ target[w] = TheTarget
              /\ \A k \in DOMAIN calls[w] : calls[w][k].on = TheTarget

C8_Witness ==
    /\ stage = "threaded" /\ num >= 2 /\ AllDone /\ factoryCalls = num
    /\ \E w1, w2 \in Workers :
          /\ target[w1] # target[w2]
          /\ Len(calls[w1]) = 2 /\ Len(calls[w2]) = 2

\* ---- C9 --------------------------------------------------------------------
Exceptions == {"StopIteration", "raised"}

\* C9: a send on a pool or a broadcast whose close() has been called raises
\* to the caller and has no effect: nothing is put on the queue and no call
\* is made on any downstream stage.
C9_SendAfterCloseRaises ==
    [][(Calls("send") /\ closed)
          => /\ result' \in Exceptions
             /\ UNCHANGED <<messages, calls, bcalls, sent, gen, pc, item>>]_vars

C9_Witness ==
    /\ IsPool /\ closed /\ op = "send" /\ result = "StopIteration"
    /\ Len(sent) = 1 /\ ncalls = 3

\* ---- C10 -------------------------------------------------------------------
\* C10 as stated: a close() on a pool or a broadcast that has already been
\* closed raises to the caller.
C10_SecondCloseRaises ==
    [][(Calls("close") /\ closed) => result' \in Exceptions]_vars

\* C10 amended: a close() on a pool or a broadcast that has already been
\* closed returns normally and has no effect: no sentinel is put on the
\* queue and no target is closed again.
C10_SecondCloseIsNoOp ==
    [][(Calls("close") /\ closed)
          => /\ result' = "ok"
             /\ UNCHANGED <<messages, calls, bcalls, sent, gen, i, pc, item,
                            stopEvent>>]_vars

C10_Witness ==
    /\ stage = "broadcast" /\ closed /\ op = "close" /\ result = "ok"
    /\ ncalls = 3 /\ Len(sent) = 1
    /\ Len(bcalls) = 2 * ntargets

\* ---- C11 -------------------------------------------------------------------
\* the step in which worker w's target.send(item) raises
RaisingSend(w) == pc[w] = "send" /\ Raises(w, item[w]) /\ pc'[w] # pc[w]

\* C11: when a worker's downstream send raises, the worker ends there: it
\* has not closed its stage and never does, it holds an item and no
\* sentinel, and it takes no further step.  The step changes nothing of the
\* other workers, the queue or the producer (no error reaches it); the
\* other workers can still dequeue and forward, and the producer's later
\* send and close on the pool succeed as before.
C11_RaisingWorkerDiesAlone ==
    /\ [](\A w \in Workers :
            /\ pc[w] = "raised" =>
                  /\ ClosePositions(calls[w]) = {}
                  /\ item[w] \in Items
                  /\ ~ENABLED Worker(w)
            /\ (pc[w] = "get" /\ messages # <<>>) => ENABLED run_target_get(w)
            /\ pc[w] = "send" => ENABLED run_target_send(w))
    /\ [](IsPool => result \in {"none", "ok", "pending", "StopIteration"})
    /\ []((IsPool /\ gen = "closing" /\ \E w \in Workers : pc[w] = "raised")
            => ENABLED close_put)
    /\ [][\A w \in Workers :
            /\ RaisingSend(w) =>
                  /\ pc'[w] = "raised"
                  /\ \A v \in Workers \ {w} : pc'[v] = pc[v]
                  /\ UNCHANGED <<calls, messages, item, gen, i, result, op,
                                 ncalls, sent, stopEvent, closed>>
            /\ pc[w] = "raised" => pc'[w] = "raised" /\ calls'[w] = calls[w]]_vars
    /\ [][(IsPool /\ \E w \in Workers : pc[w] = "raised") =>
            /\ (Calls("send") /\ gen = "suspended") =>
                  result' = "ok" /\ messages' = Append(messages, sent'[Len(sent')])
            /\ (Calls("close") /\ gen = "suspended") =>
                  gen' = "closing" /\ messages' = messages]_vars

C11_Witness ==
    /\ IsPool /\ num >= 2 /\ gen = "finished" /\ op = "close" /\ result = "ok"
    /\ \E w1, w2 \in Workers :
          /\ pc[w1] = "raised" /\ calls[w1] = <<>>
          /\ pc[w2] = "done" /\ Len(calls[w2]) = 2
    /\ messages = <<GeneratorExit>>

\* ---- C16 -------------------------------------------------------------------
\* C16: right after construction a pool of either variant, from either
\* module, has raised nothing, has its generator suspended at the yield
\* ready for send, and has num execution units and an empty queue.
C16_ConstructionSucceeds ==
    (ncalls = 0 /\ stage # "broadcast") =>
        /\ result = "none"
        /\ gen = "suspended"
        /\ DOMAIN pc = 1..num
        /\ messages = <<>>
        /\ ENABLED pool_send("x")

\* ---- C12 -------------------------------------------------------------------
\* the targets whose send raises on item it
Raising(it) == {t \in Targets : Raises(t, it)}
First(S) == CHOOSE t \in S : \A u \in S : t <= u

\* C12: when a send(item) on an open broadcast reaches a target ti that
\* raises on item, the calls made by that send are exactly one send(item) on
\* each of t1..t(i-1), in order; t(i+1)..tk get no call, and the exception
\* reaches the caller of send.
C12_BroadcastStopsAtRaisingTarget ==
    [][(/\ stage = "broadcast" /\ Calls("send") /\ gen = "suspended"
        /\ Raising(sent'[Len(sent')]) # {})
          => /\ bcalls' = bcalls \o
                   [t \in 1..(First(Raising(sent'[Len(sent')])) - 1)
                        |-> SendCall(t, sent'[Len(sent')])]
             /\ result' = "raised"]_vars

C12_Witness ==
    /\ stage = "broadcast" /\ ntargets >= 2 /\ faulty = {2}
    /\ op = "send" /\ result = "raised"
    /\ bcalls = <<SendCall(1, BadItem)>>

\* ---- C13 -------------------------------------------------------------------
\* worker w waits in messages.get() on the empty queue
Blocked(w) == pc[w] = "get" /\ messages = <<>>

\* C13: a worker blocked in get on the empty queue takes no step, whether
\* or not the stop flag is set: it stays where it is until the producer
\* puts an entry (an item by send or a sentinel by close) on the queue.  The
\* flag is read only by the loop condition, before the get.
C13_BlockedWorkerIgnoresStop ==
    /\ [](\A w \in Workers : Blocked(w) => ~ENABLED Worker(w))
    /\ [][\A w \in Workers :
            /\ Blocked(w) =>
                  /\ pc'[w] = "get" /\ calls'[w] = calls[w]
                  /\ messages' # <<>> =>
                        /\ ncalls' = ncalls + 1 \/ i' = i + 1
                        /\ op' \in {"send", "close"}
            /\ (pc[w] \notin {"is_set", "close"} /\ pc'[w] = "close")
                  => (pc[w] = "get" /\ item'[w] = GeneratorExit)]_vars

\* stop() was called while the worker was blocked and no call follows: the
\* worker is blocked for good
C13_Witness ==
    /\ IsPool /\ stopEvent /\ op = "stop" /\ ncalls = MaxCalls /\ ~closed
    /\ \E w \in Workers : Blocked(w) /\ ~ENABLED Next

\* ---- C14 -------------------------------------------------------------------
\* C14 as stated: while close() has not been called, no worker has
\* terminated and no private downstream stage has been closed.
C14_OnlyCloseEndsWorkers ==
    (IsPool /\ ~closed) =>
        \A w \in Workers : pc[w] # "done" /\ ClosePositions(calls[w]) = {}

\* C14 amended: while neither close() nor stop() has been called, no worker
\* has left its loop normally and no private downstream stage has been
\* closed; before close(), a worker ends only after stop() has set the flag
\* (it then closes its stage) or because its downstream send raised.
C14_OnlyCloseOrStopEndsWorkers ==
    (IsPool /\ ~closed) =>
        \A w \in Workers :
            /\ (pc[w] \in {"close", "done"} \/ ClosePositions(calls[w]) # {})
                  => stopEvent
            /\ pc[w] = "raised" => Raises(w, item[w])

C14_Witness ==
    /\ IsPool /\ num >= 2 /\ ~closed /\ ~stopEvent /\ ncalls = MaxCalls
    /\ Len(sent) = MaxCalls /\ messages = <<>>
    /\ \A w \in Workers : Blocked(w) /\ calls[w] # <<>>

\* ---- C15 -------------------------------------------------------------------
\* C15: every sentinel put on the queue is either still queued or held by
\* exactly one worker; a worker that has taken a sentinel leaves its loop
\* and dequeues nothing more, so it takes at most one; and no sentinel is
\* ever the argument of a downstream send.
C15_OneSentinelPerWorker ==
    /\ [](IsPool =>
            /\ SentinelsTaken + SentinelsQueued = i
            /\ \A w \in Workers :
                  /\ pc[w] = "send" => item[w] \in Items
                  /\ item[w] = GeneratorExit => pc[w] \in {"close", "done"}
                  /\ \A k \in DOMAIN calls[w] :
                        calls[w][k].op = "send" => calls[w][k].arg \in Items)
    /\ [][\A w \in Workers :
            /\ item[w] = GeneratorExit => item'[w] = GeneratorExit
            /\ item'[w] # item[w] =>
                  /\ messages # <<>> /\ item'[w] = Head(messages)
                  /\ messages' = Tail(messages)
                  /\ \A v \in Workers \ {w} : item'[v] = item[v]]_vars

C15_Witness ==
    /\ IsPool /\ num >= 2 /\ messages = <<>> /\ i = num
    /\ \A w \in Workers : item[w] = GeneratorExit /\ pc[w] = "done"
    /\ Len(sent) >= 1

\* ---- C17 -------------------------------------------------------------------
\* C17: once a worker has dequeued a sentinel the queue holds sentinels
\* only: every item sent was dequeued before the first sentinel was (this
\* holds whether or not stop() was called).
C17_ItemsBeforeSentinels ==
    (IsPool /\ SentinelsTaken > 0) =>
        \A k \in DOMAIN messages : messages[k] = GeneratorExit

C17_Witness ==
    /\ IsPool /\ num >= 2 /\ ~stopEvent /\ SentinelsTaken = 1
    /\ Len(sent) = 2 /\ messages = <<GeneratorExit>>
    /\ \E w \in Workers : Len(SentArgs(calls[w])) = 2

\* ---- C18 -------------------------------------------------------------------
\* the last call in a call log is a send of item it
LastSent(log, it) == log # <<>> /\ log[Len(log)] = SendCall(log[Len(log)].on, it)

\* C18: with the stop flag set a worker dequeues at most one more entry;
\* when that entry is an item the worker still sends it to its downstream
\* stage before it reads the flag again; a worker that has left its loop
\* without a sentinel did so with the flag set, and a worker that has
\* returned, by the flag or by a sentinel, has closed its stage exactly once,
\* as its last call.
C18_StopLetsOneMoreEntryThrough ==
    \A w \in Workers :
        /\ late[w] <= 1
        /\ (late[w] = 1 /\ item[w] \in Items /\ pc[w] \in {"is_set", "close"})
              => LastSent(calls[w], item[w])
        /\ (late[w] = 1 /\ item[w] \in Items /\ pc[w] = "done")
              => /\ Len(calls[w]) >= 2
                 /\ calls[w][Len(calls[w]) - 1] = SendCall(target[w], item[w])
        /\ (pc[w] \in {"close", "done"} /\ item[w] # GeneratorExit) => stopEvent
        /\ pc[w] = "done" => ClosePositions(calls[w]) = {Len(calls[w])}

C18_Witness ==
    /\ IsPool /\ stopEvent /\ ~closed
    /\ \E w \in Workers :
          /\ late[w] = 1 /\ pc[w] = "done" /\ item[w] \in Items
          /\ calls[w] = <<SendCall(target[w], item[w]), CloseCall(target[w])>>

\* ---- C20 -------------------------------------------------------------------
\* the broadcast generator ended without close(): a send on it failed
Failed == stage = "broadcast" /\ gen = "finished" /\ ClosePositions(bcalls) = {}

\* C20: a send of the broadcast that raises because of a target leaves the
\* generator finished, and from then on every send raises StopIteration
\* without a call on any target and every close() returns normally without
\* a call on any target.
C20_FailedBroadcastIsFinished ==
    /\ [][(stage = "broadcast" /\ result' = "raised") => Failed']_vars
    /\ [][Failed =>
            /\ Failed'
            /\ bcalls' = bcalls
            /\ Calls("send") => result' = "StopIteration" /\ sent' = sent
            /\ Calls("close") => result' = "ok"]_vars

C20_Witness ==
    /\ Failed /\ ntargets >= 2 /\ faulty = {2} /\ ncalls = 3
    /\ op = "close" /\ result = "ok" /\ closed
    /\ sent = <<BadItem>> /\ bcalls = <<SendCall(1, BadItem)>>

\* ---- C19 -------------------------------------------------------------------
\* C19: once both stop() and close() have been called on a pool, in either
\* order and among any sends, every worker eventually returns with its
\* private downstream stage closed exactly once, as its last call.
C19_StopAndCloseTerminate ==
    (closed /\ stopEvent) ~>
        (AllDone /\ \A w \in Workers :
                      ClosePositions(calls[w]) = {Len(calls[w])})

\* a worker ended by the flag and another by a sentinel, after stop then close
C19_Witness ==
    /\ num >= 2 /\ closed /\ stopEvent /\ AllDone /\ gen = "finished"
    /\ \E w1, w2 \in Workers :
          /\ item[w1] = GeneratorExit /\ item[w2] # GeneratorExit
          /\ calls[w1] = <<CloseCall(target[w1])>>
    /\ Len(messages) = num - 1

====
